---- MODULE Spec2Model ----
(***************************************************************************)
(* Model of src/src/doubly_list.rs: a doubly linked list whose forward     *)
(* links (head, Node.next) are owning Rc references and whose backward     *)
(* links (tail, Node.prev) are Weak references, and the Cursor over it.    *)
(* The heap is modelled explicitly: every node slot carries the strong     *)
(* count of its Rc, so that Weak::upgrade and Rc::into_inner can fail in   *)
(* the model exactly when they fail in the program.                        *)
(***************************************************************************)
EXTENDS Integers, Sequences, FiniteSets, TLC

(* ------------------------------ bounds --------------------------------- *)
\* number of node slots of the heap: a push is taken only while a slot is free
MaxNodes == 3
\* element values are 1..MaxVal
MaxVal == 2
\* how many further pops / cursor steps a scenario makes past the end
MaxExtra == 2

NULL == 0
NoWrite == 0
NodeIds == 1..MaxNodes
Values == 1..MaxVal

\* Option<T>: None is the empty tuple, Some(v) the one-element tuple
None == <<>>
Some(v) == <<v>>

VARIABLES
    head,      \* LinkedList.head : Option<NodeRef>, NULL or a node id (owning)
    tail,      \* LinkedList.tail : Option<WeakNodeRef>, NULL or a node id (non-owning)
    heap,      \* node id -> [data, next, prev, strong]; strong = 0: not allocated
    cursor,    \* TRUE while a Cursor borrows the list mutably
    current,   \* Cursor.current : Option<NodeRef> (owning)
    panicked,  \* TRUE once a todo!() has been reached
    op,        \* name of the last completed call
    arg,       \* its argument (value pushed, or value written through the view)
    ret,       \* its return value (None / Some(v))
    hist,      \* calls made so far, recorded by the test scenarios only
    List_head, \* list.rs List.head : Option<Box<Node<T>>>, None or Some(node)
    List_len   \* list.rs List.len : usize

vars == <<head, tail, heap, cursor, current, panicked, op, arg, ret, hist,
          List_head, List_len>>

\* the state of the doubly linked list and its cursor / of the singly linked List
DListVars == <<head, tail, heap, cursor, current, panicked>>
ListVars == <<List_head, List_len>>

(* ------------------------- Rc / Weak semantics ------------------------- *)
\* a slot that holds no node
FreeNode == [data |-> 0, next |-> NULL, prev |-> NULL, strong |-> 0]

\* Rc::new(RefCell::new(Node { data, next, prev })): strong count 1
RcNew(H, n, d, nx, pv) ==
    [H EXCEPT ![n] = [data |-> d, next |-> nx, prev |-> pv, strong |-> 1]]

\* Rc::clone: one more owner
RcClone(H, n) ==
    IF n = NULL THEN H ELSE [H EXCEPT ![n].strong = @ + 1]

\* dropping an Option<Rc>: one owner fewer; the last owner destroys the node,
\* which drops the node's own next link in turn
RECURSIVE RcDrop(_, _)
RcDrop(H, n) ==
    IF n = NULL THEN H
    ELSE IF H[n].strong > 1 THEN [H EXCEPT ![n].strong = @ - 1]
    ELSE RcDrop([H EXCEPT ![n] = FreeNode], H[n].next)

\* Weak::upgrade: the node if it is still alive, else None
Upgrade(H, w) ==
    IF w # NULL /\ H[w].strong > 0 THEN w ELSE NULL

\* Rc::into_inner(rc)?.into_inner().data : Some(data) iff rc is the only owner;
\* the Rc is consumed either way
IntoInner(H, n) ==
    [ret  |-> IF H[n].strong = 1 THEN Some(H[n].data) ELSE None,
     heap |-> RcDrop(H, n)]

\* slots the allocator may hand out: no strong and no weak reference left
FreeIds ==
    {n \in NodeIds : /\ heap[n].strong = 0
                     /\ tail # n
                     /\ \A m \in NodeIds : heap[m].prev # n}

\* the slot the next Rc::new gets
NewId == CHOOSE n \in FreeIds : \A m \in FreeIds : n <= m

(* ------------------------------- Init ---------------------------------- *)
\* LinkedList::new()
Init ==
    /\ head = NULL
    /\ tail = NULL
    /\ heap = [n \in NodeIds |-> FreeNode]
    /\ cursor = FALSE
    /\ current = NULL
    /\ panicked = FALSE
    /\ op = "new"
    /\ arg = NoWrite
    /\ ret = None
    /\ hist = <<>>
    \* List::new()
    /\ List_head = None
    /\ List_len = 0

\* list methods take &mut self: not callable while a Cursor holds the borrow
\* as if the Cursor held no exclusive borrow of the list
ListCallable_Shared == ~panicked

ListCallable == ~cursor /\ ~panicked
CursorCallable == cursor /\ ~panicked

(* ---------------------------- LinkedList ------------------------------- *)
\* push_front that builds the new head with next: None
push_front_NoLink(v) ==
    /\ ListCallable
    /\ FreeIds # {}
    /\ LET n == NewId IN
       IF head = NULL
       THEN /\ heap' = RcNew(heap, n, v, NULL, NULL)
            /\ tail' = n
            /\ head' = n
       ELSE LET old_head == head
                H1 == RcNew(heap, n, v, NULL, NULL)
                H2 == [H1 EXCEPT ![old_head].prev = n]
                H3 == RcDrop(H2, old_head)
            IN /\ heap' = H3
               /\ head' = n
               /\ tail' = tail
    /\ op' = "push_front" /\ arg' = v /\ ret' = None
    /\ UNCHANGED <<cursor, current, panicked>>

\* push_front that stores an owning Rc clone of the new head in old_head.prev
push_front_StrongPrev(v) ==
    /\ ListCallable
    /\ FreeIds # {}
    /\ LET n == NewId IN
       IF head = NULL
       THEN /\ heap' = RcNew(heap, n, v, NULL, NULL)
            /\ tail' = n
            /\ head' = n
       ELSE LET old_head == head
                H1 == RcNew(RcClone(heap, old_head), n, v, old_head, NULL)
                H2 == [RcClone(H1, n) EXCEPT ![old_head].prev = n]
                H3 == RcDrop(H2, old_head)
            IN /\ heap' = H3
               /\ head' = n
               /\ tail' = tail
    /\ op' = "push_front" /\ arg' = v /\ ret' = None
    /\ UNCHANGED <<cursor, current, panicked>>

push_front(v) ==
    /\ ListCallable
    /\ FreeIds # {}
    /\ LET n == NewId IN
       IF head = NULL
       THEN /\ heap' = RcNew(heap, n, v, NULL, NULL)
            /\ tail' = n
            /\ head' = n
       ELSE LET old_head == head
                \* next: Some(old_head.clone())
                H1 == RcNew(RcClone(heap, old_head), n, v, old_head, NULL)
                \* old_head.borrow_mut().prev = Some(Rc::downgrade(&new_head))
                H2 == [H1 EXCEPT ![old_head].prev = n]
                \* the local old_head goes out of scope
                H3 == RcDrop(H2, old_head)
            IN /\ heap' = H3
               /\ head' = n
               /\ tail' = tail
    /\ op' = "push_front" /\ arg' = v /\ ret' = None
    /\ UNCHANGED <<cursor, current, panicked>>

\* pop_front that leaves the new head's prev as it was
pop_front_KeepsPrev ==
    /\ ListCallable
    /\ IF head = NULL
       THEN /\ ret' = None
            /\ UNCHANGED <<head, tail, heap>>
       ELSE LET old_head == head
                new_head == heap[old_head].next
                H1 == [heap EXCEPT ![old_head].next = NULL]
                r == IntoInner(H1, old_head)
            IN /\ head' = new_head
               /\ tail' = IF new_head # NULL THEN tail ELSE NULL
               /\ heap' = r.heap
               /\ ret' = r.ret
    /\ op' = "pop_front" /\ arg' = NoWrite
    /\ UNCHANGED <<cursor, current, panicked>>

\* pop_front that never resets tail
pop_front_KeepsTail ==
    /\ ListCallable
    /\ IF head = NULL
       THEN /\ ret' = None
            /\ UNCHANGED <<head, tail, heap>>
       ELSE LET old_head == head
                new_head == heap[old_head].next
                H1 == [heap EXCEPT ![old_head].next = NULL]
                H2 == IF new_head # NULL
                      THEN [H1 EXCEPT ![new_head].prev = NULL]
                      ELSE H1
                r == IntoInner(H2, old_head)
            IN /\ head' = new_head
               /\ tail' = tail
               /\ heap' = r.heap
               /\ ret' = r.ret
    /\ op' = "pop_front" /\ arg' = NoWrite
    /\ UNCHANGED <<cursor, current, panicked>>

\* pop_front that unwraps head instead of returning None on an empty list
pop_front_Unwrap ==
    /\ ListCallable
    /\ IF head = NULL
       THEN /\ ret' = None
            /\ panicked' = TRUE
            /\ UNCHANGED <<head, tail, heap>>
       ELSE LET old_head == head
                new_head == heap[old_head].next
                H1 == [heap EXCEPT ![old_head].next = NULL]
                H2 == IF new_head # NULL
                      THEN [H1 EXCEPT ![new_head].prev = NULL]
                      ELSE H1
                r == IntoInner(H2, old_head)
            IN /\ head' = new_head
               /\ tail' = IF new_head # NULL THEN tail ELSE NULL
               /\ heap' = r.heap
               /\ ret' = r.ret
               /\ panicked' = panicked
    /\ op' = "pop_front" /\ arg' = NoWrite
    /\ UNCHANGED <<cursor, current>>

pop_front ==
    /\ ListCallable
    /\ IF head = NULL
       THEN \* self.head.take()? on an empty list
            /\ ret' = None
            /\ UNCHANGED <<head, tail, heap>>
       ELSE LET old_head == head
                \* self.head = old_head.borrow_mut().next.take()
                new_head == heap[old_head].next
                H1 == [heap EXCEPT ![old_head].next = NULL]
                \* h.borrow_mut().prev = None
                H2 == IF new_head # NULL
                      THEN [H1 EXCEPT ![new_head].prev = NULL]
                      ELSE H1
                r == IntoInner(H2, old_head)
            IN /\ head' = new_head
               /\ tail' = IF new_head # NULL THEN tail ELSE NULL
               /\ heap' = r.heap
               /\ ret' = r.ret
    /\ op' = "pop_front" /\ arg' = NoWrite
    /\ UNCHANGED <<cursor, current, panicked>>

\* push_back that builds the new tail with prev: None
push_back_NoPrev(v) ==
    /\ ListCallable
    /\ FreeIds # {}
    /\ LET n == NewId
           old_tail == Upgrade(heap, tail)
       IN
       IF old_tail = NULL
       THEN /\ heap' = RcDrop(RcNew(heap, n, v, NULL, NULL), head)
            /\ tail' = n
            /\ head' = n
       ELSE LET H1 == RcClone(heap, old_tail)
                H2 == RcNew(H1, n, v, NULL, NULL)
                H3 == RcDrop([RcClone(H2, n) EXCEPT ![old_tail].next = n],
                             H2[old_tail].next)
                H4 == RcDrop(RcDrop(H3, n), old_tail)
            IN /\ heap' = H4
               /\ tail' = n
               /\ head' = head
    /\ op' = "push_back" /\ arg' = v /\ ret' = None
    /\ UNCHANGED <<cursor, current, panicked>>

push_back(v) ==
    /\ ListCallable
    /\ FreeIds # {}
    /\ LET n == NewId
           \* self.tail.take().and_then(|w| w.upgrade())
           old_tail == Upgrade(heap, tail)
       IN
       IF old_tail = NULL
       THEN \* self.head = Some(node) drops whatever head held before
            /\ heap' = RcDrop(RcNew(heap, n, v, NULL, NULL), head)
            /\ tail' = n
            /\ head' = n
       ELSE LET \* upgrade() yields a second owner of old_tail
                H1 == RcClone(heap, old_tail)
                \* prev: Some(Rc::downgrade(&old_tail))
                H2 == RcNew(H1, n, v, NULL, old_tail)
                \* old_tail.borrow_mut().next = Some(new_tail.clone())
                H3 == RcDrop([RcClone(H2, n) EXCEPT ![old_tail].next = n],
                             H2[old_tail].next)
                \* the locals new_tail and old_tail go out of scope
                H4 == RcDrop(RcDrop(H3, n), old_tail)
            IN /\ heap' = H4
               /\ tail' = n
               /\ head' = head
    /\ op' = "push_back" /\ arg' = v /\ ret' = None
    /\ UNCHANGED <<cursor, current, panicked>>

\* pop_back that leaves the new tail's next as it was
pop_back_KeepsNext ==
    /\ ListCallable
    /\ LET old_tail == Upgrade(heap, tail)
       IN
       IF old_tail = NULL
       THEN /\ tail' = NULL
            /\ ret' = None
            /\ UNCHANGED <<head, heap>>
       ELSE LET H1 == RcClone(heap, old_tail)
                new_tail == H1[old_tail].prev
                H2 == [H1 EXCEPT ![old_tail].prev = NULL]
                H3 == IF new_tail # NULL THEN H2 ELSE RcDrop(H2, head)
                r == IntoInner(H3, old_tail)
            IN /\ tail' = new_tail
               /\ head' = IF new_tail # NULL THEN head ELSE NULL
               /\ heap' = r.heap
               /\ ret' = r.ret
    /\ op' = "pop_back" /\ arg' = NoWrite
    /\ UNCHANGED <<cursor, current, panicked>>

pop_back ==
    /\ ListCallable
    /\ LET \* self.tail.take().and_then(|w| w.upgrade())?
           old_tail == Upgrade(heap, tail)
       IN
       IF old_tail = NULL
       THEN \* take() has already emptied self.tail when upgrade fails
            /\ tail' = NULL
            /\ ret' = None
            /\ UNCHANGED <<head, heap>>
       ELSE LET H1 == RcClone(heap, old_tail)
                \* self.tail = old_tail.borrow_mut().prev.take()
                new_tail == H1[old_tail].prev
                H2 == [H1 EXCEPT ![old_tail].prev = NULL]
                t == Upgrade(H2, new_tail)
                \* Some(weak): t.borrow_mut().next = None, if weak upgrades
                \* None: self.head = None
                H3 == IF new_tail # NULL
                      THEN IF t # NULL
                           THEN RcDrop([H2 EXCEPT ![t].next = NULL], H2[t].next)
                           ELSE H2
                      ELSE RcDrop(H2, head)
                r == IntoInner(H3, old_tail)
            IN /\ tail' = new_tail
               /\ head' = IF new_tail # NULL THEN head ELSE NULL
               /\ heap' = r.heap
               /\ ret' = r.ret
    /\ op' = "pop_back" /\ arg' = NoWrite
    /\ UNCHANGED <<cursor, current, panicked>>

cursor_front ==
    /\ ListCallable
    \* let current = self.head.clone()
    /\ heap' = RcClone(heap, head)
    /\ current' = head
    /\ cursor' = TRUE
    /\ op' = "cursor_front" /\ arg' = NoWrite /\ ret' = None
    /\ UNCHANGED <<head, tail, panicked>>

(* ------------------------------ Cursor --------------------------------- *)
\* what peek_mut returns for a cursor at node c: a view of c's data
View(H, c) == IF c = NULL THEN None ELSE Some(H[c].data)

\* the caller's use of the returned Option<&mut T>: `*val = w`, or nothing
WriteThrough(H, c, w) ==
    IF c # NULL /\ w # NoWrite THEN [H EXCEPT ![c].data = w] ELSE H

\* peek_mut that hands out a view of the head node's data
Cursor_peek_mut_Head(w) ==
    /\ CursorCallable
    /\ ret' = View(heap, current)
    /\ heap' = WriteThrough(heap, IF current = NULL THEN NULL ELSE head, w)
    /\ op' = "peek_mut" /\ arg' = w
    /\ UNCHANGED <<head, tail, cursor, current, panicked>>

\* peek_mut that unwraps current instead of returning None when off-list
Cursor_peek_mut_Unwrap(w) ==
    /\ CursorCallable
    /\ ret' = View(heap, current)
    /\ heap' = WriteThrough(heap, current, w)
    /\ panicked' = (current = NULL)
    /\ op' = "peek_mut" /\ arg' = w
    /\ UNCHANGED <<head, tail, cursor, current>>

Cursor_peek_mut(w) ==
    /\ CursorCallable
    /\ ret' = View(heap, current)
    /\ heap' = WriteThrough(heap, current, w)
    /\ op' = "peek_mut" /\ arg' = w
    /\ UNCHANGED <<head, tail, cursor, current, panicked>>

\* next that restarts from head once the cursor is off-list
Cursor_next_Wraps(w) ==
    /\ CursorCallable
    /\ LET nxt == IF current = NULL THEN head ELSE heap[current].next
           H1 == RcDrop(RcClone(heap, nxt), current)
       IN /\ current' = nxt
          /\ ret' = View(H1, nxt)
          /\ heap' = WriteThrough(H1, nxt, w)
    /\ op' = "next" /\ arg' = w
    /\ UNCHANGED <<head, tail, cursor, panicked>>

\* next that moves the successor out of the current node (next.take()) instead
\* of cloning it
Cursor_next_Takes(w) ==
    /\ CursorCallable
    /\ LET nxt == IF current = NULL THEN NULL ELSE heap[current].next
           H0 == IF current = NULL THEN heap
                 ELSE [heap EXCEPT ![current].next = NULL]
           H1 == RcDrop(H0, current)
       IN /\ current' = nxt
          /\ ret' = View(H1, nxt)
          /\ heap' = WriteThrough(H1, nxt, w)
    /\ op' = "next" /\ arg' = w
    /\ UNCHANGED <<head, tail, cursor, panicked>>

Cursor_next(w) ==
    /\ CursorCallable
    /\ LET \* self.current.as_ref().and_then(|node| node.borrow().next.clone())
           nxt == IF current = NULL THEN NULL ELSE heap[current].next
           \* the assignment drops the Rc that self.current held
           H1 == RcDrop(RcClone(heap, nxt), current)
       IN /\ current' = nxt
          \* self.peek_mut()
          /\ ret' = View(H1, nxt)
          /\ heap' = WriteThrough(H1, nxt, w)
    /\ op' = "next" /\ arg' = w
    /\ UNCHANGED <<head, tail, cursor, panicked>>

\* todo!()
Cursor_prev ==
    /\ CursorCallable
    /\ panicked' = TRUE
    /\ op' = "prev" /\ arg' = NoWrite /\ ret' = None
    /\ UNCHANGED <<head, tail, heap, cursor, current>>

Cursor_take ==
    /\ CursorCallable
    /\ panicked' = TRUE
    /\ op' = "take" /\ arg' = NoWrite /\ ret' = None
    /\ UNCHANGED <<head, tail, heap, cursor, current>>

Cursor_insert_after(v) ==
    /\ CursorCallable
    /\ panicked' = TRUE
    /\ op' = "insert_after" /\ arg' = v /\ ret' = None
    /\ UNCHANGED <<head, tail, heap, cursor, current>>

Cursor_insert_before(v) ==
    /\ CursorCallable
    /\ panicked' = TRUE
    /\ op' = "insert_before" /\ arg' = v /\ ret' = None
    /\ UNCHANGED <<head, tail, heap, cursor, current>>

\* the Cursor goes out of scope: its Rc is released and the borrow ends
Cursor_drop ==
    /\ CursorCallable
    /\ heap' = RcDrop(heap, current)
    /\ current' = NULL
    /\ cursor' = FALSE
    /\ op' = "drop" /\ arg' = NoWrite /\ ret' = None
    /\ UNCHANGED <<head, tail, panicked>>

(* --------------------------- specification ----------------------------- *)
\* any sequence of calls the borrow checker admits
Next ==
    \/ \E v \in Values : push_front(v) /\ UNCHANGED <<hist, ListVars>>
    \/ \E v \in Values : push_back(v) /\ UNCHANGED <<hist, ListVars>>
    \/ pop_front /\ UNCHANGED <<hist, ListVars>>
    \/ pop_back /\ UNCHANGED <<hist, ListVars>>
    \/ cursor_front /\ UNCHANGED <<hist, ListVars>>
    \/ \E w \in {NoWrite} \cup Values : Cursor_peek_mut(w) /\ UNCHANGED <<hist, ListVars>>
    \/ \E w \in {NoWrite} \cup Values : Cursor_next(w) /\ UNCHANGED <<hist, ListVars>>
    \/ Cursor_prev /\ UNCHANGED <<hist, ListVars>>
    \/ Cursor_take /\ UNCHANGED <<hist, ListVars>>
    \/ \E v \in Values : Cursor_insert_after(v) /\ UNCHANGED <<hist, ListVars>>
    \/ \E v \in Values : Cursor_insert_before(v) /\ UNCHANGED <<hist, ListVars>>
    \/ Cursor_drop /\ UNCHANGED <<hist, ListVars>>

Spec == Init /\ [][Next]_vars

(* ------------------------- abstraction function ------------------------ *)
\* the node ids met by following next from n, at most fuel of them
RECURSIVE Walk(_, _, _)
Walk(H, n, fuel) ==
    IF n = NULL \/ fuel = 0 THEN <<>>
    ELSE <<n>> \o Walk(H, H[n].next, fuel - 1)

\* the forward chain from head; longer than MaxNodes only if it has a cycle
Chain == Walk(heap, head, MaxNodes + 1)

\* the elements front to back
Elems == [i \in 1..Len(Chain) |-> heap[Chain[i]].data]

\* the allocated nodes
Live == {n \in NodeIds : heap[n].strong > 0}

(* ------------------------- properties: LinkedList ---------------------- *)
Pops == {"pop_front", "pop_back"}
Pushes == {"push_front", "push_back"}

\* C3: every push and pop acts on the forward chain as on an abstract deque:
\* pop_front returns and removes the first element, pop_back the last one,
\* either returns None exactly when the deque is empty (and leaves it empty),
\* push_front prepends and push_back appends.
C3_Step ==
    /\ op' = "pop_front" =>
         IF Len(Elems) = 0
         THEN ret' = None /\ Len(Elems') = 0
         ELSE ret' = Some(Elems[1]) /\ Elems' = SubSeq(Elems, 2, Len(Elems))
    /\ op' = "pop_back" =>
         IF Len(Elems) = 0
         THEN ret' = None /\ Len(Elems') = 0
         ELSE /\ ret' = Some(Elems[Len(Elems)])
              /\ Elems' = SubSeq(Elems, 1, Len(Elems) - 1)
    /\ op' = "push_front" => Elems' = <<arg'>> \o Elems
    /\ op' = "push_back" => Elems' = Elems \o <<arg'>>
C3_RefinesDeque == [][C3_Step]_vars

\* pop_back has returned an element and left at least two differing elements
C3_Witness ==
    /\ op = "pop_back" /\ ret # None
    /\ Len(Elems) >= 2 /\ Elems[1] # Elems[2]

\* C4: following next from head visits every allocated node exactly once and
\* terminates, and the one node without a next is the node tail refers to.
C4_ForwardChain ==
    /\ \A i, j \in 1..Len(Chain) : i # j => Chain[i] # Chain[j]
    /\ {Chain[i] : i \in 1..Len(Chain)} = Live
    /\ {n \in Live : heap[n].next = NULL} = (IF tail = NULL THEN {} ELSE {tail})

\* a three-node chain after a pop_back moved tail to a node that is not head
C4_Witness ==
    /\ op = "pop_back" /\ Len(Chain) = 2 /\ tail = Chain[2] /\ tail # head

\* C5: every node after the first has prev referring to its predecessor in the
\* forward chain, and the one node without a prev is head.
C5_BackLinks ==
    /\ \A i \in 2..Len(Chain) : heap[Chain[i]].prev = Chain[i - 1]
    /\ {n \in Live : heap[n].prev = NULL} = (IF head = NULL THEN {} ELSE {head})

\* pop_front has moved head to a node that had a predecessor and has successors
C5_Witness ==
    /\ op = "pop_front" /\ ret # None /\ Len(Chain) >= 2

\* C6: head is absent iff tail is absent iff the list has no element (no node
\* in the chain and none allocated).
C6_EmptyIff ==
    /\ head = NULL <=> tail = NULL
    /\ head = NULL <=> Len(Elems) = 0
    /\ tail = NULL <=> Live = {}

\* a pop has removed the last element
C6_Witness ==
    /\ op \in Pops /\ ret # None /\ head = NULL /\ tail = NULL /\ Live = {}

\* C7: a list popped to empty is in the state new() creates: head and tail
\* absent and no node left, so every later call starts from the state a fresh
\* list starts from.
C7_EmptiedIsNew ==
    (op \in Pops /\ ret # None /\ head = NULL) =>
        /\ tail = NULL
        /\ heap = [n \in NodeIds |-> FreeNode]
        /\ ~cursor /\ current = NULL /\ ~panicked

\* the last element was removed by pop_back
C7_Witness ==
    /\ op = "pop_back" /\ ret # None /\ head = NULL

\* C8: a pop on an empty list returns None and changes nothing, and a push
\* that follows it makes the pushed value the only element.
C8_Step ==
    /\ (op' \in Pops /\ head = NULL) =>
         /\ ret' = None
         /\ head' = NULL /\ tail' = NULL /\ heap' = heap
         /\ ~panicked'
    /\ (op \in Pops /\ ret = None /\ op' \in Pushes) =>
         /\ Elems' = <<arg'>>
         /\ head' # NULL /\ tail' = head'
C8_PopEmpty == [][C8_Step]_vars

\* pop_back has returned None on an empty list
C8_Witness ==
    /\ op = "pop_back" /\ ret = None /\ head = NULL /\ tail = NULL

(* ------------------------------ scenarios ------------------------------ *)
\* The unit tests (mod tests) drive the list through fixed shapes of calls and
\* compare what the calls return.  The scenarios below make the same shapes of
\* calls with every choice of values and lengths, and record each call with
\* its argument and its result in hist.
Record == hist' = Append(hist, [op |-> op', arg |-> arg', ret |-> ret'])

Count(h, ops) == Cardinality({i \in 1..Len(h) : h[i].op \in ops})
PushPart(h) == SelectSeq(h, LAMBDA e : e.op \in Pushes)
PopPart(h) == SelectSeq(h, LAMBDA e : e.op \in Pops)

\* tests::test_mixed_push, test_push_back, test_pop_back: pushes at either
\* end, then pops from one end, MaxExtra of them past the last element
DrainsBy(o) ==
    /\ \A i \in 1..Len(hist) : hist[i].op \in Pops => hist[i].op = o
    /\ Count(hist, Pops) < Count(hist, Pushes) + MaxExtra

NextDrain ==
    \/ \E v \in Values : Count(hist, Pops) = 0 /\ push_front(v)
          /\ Record /\ UNCHANGED ListVars
    \/ \E v \in Values : Count(hist, Pops) = 0 /\ push_back(v)
          /\ Record /\ UNCHANGED ListVars
    \/ DrainsBy("pop_front") /\ pop_front /\ Record /\ UNCHANGED ListVars
    \/ DrainsBy("pop_back") /\ pop_back /\ Record /\ UNCHANGED ListVars

SpecDrain == Init /\ [][NextDrain]_vars

\* the front-to-back order a sequence of pushes establishes: push_front
\* prepends, push_back appends
RECURSIVE Built(_)
Built(p) ==
    IF Len(p) = 0 THEN <<>>
    ELSE LET b == Built(SubSeq(p, 1, Len(p) - 1))
             e == p[Len(p)]
         IN IF e.op = "push_front" THEN <<e.arg>> \o b ELSE b \o <<e.arg>>

\* C1: after any pushes at either end, the i-th pop_front returns the i-th
\* element of the order the pushes established, and None once all are out.
C1_PopFrontOrder ==
    LET order == Built(PushPart(hist))
        po == PopPart(hist)
    IN (\A i \in 1..Len(po) : po[i].op = "pop_front") =>
          \A i \in 1..Len(po) :
              po[i].ret = IF i <= Len(order) THEN Some(order[i]) ELSE None

\* three elements pushed at both ends, all popped from the front and one more
C1_Witness ==
    /\ Count(hist, {"push_front"}) >= 1 /\ Count(hist, {"push_back"}) >= 1
    /\ Count(hist, Pushes) = 3
    /\ Count(hist, {"pop_front"}) = 4
    /\ Built(PushPart(hist))[1] # Built(PushPart(hist))[3]

\* C2: after push_back calls only, the i-th pop_back returns the i-th element
\* counted from the last pushed, and None once all are out.
C2_PopBackOrder ==
    LET pu == PushPart(hist)
        po == PopPart(hist)
    IN ((\A i \in 1..Len(pu) : pu[i].op = "push_back") /\
        (\A i \in 1..Len(po) : po[i].op = "pop_back")) =>
          \A i \in 1..Len(po) :
              po[i].ret = IF i <= Len(pu) THEN Some(pu[Len(pu) + 1 - i].arg)
                          ELSE None

\* three push_back calls with differing values, then four pop_back calls
C2_Witness ==
    /\ Count(hist, {"push_back"}) = 3 /\ Count(hist, {"push_front"}) = 0
    /\ Count(hist, {"pop_back"}) = 4
    /\ hist[1].arg # hist[3].arg

\* tests::test_cursor_next, test_cursor_next_mutate: push_back of 1, 2, 3, ..
\* (the code never looks at an element, so distinct elements are the inputs
\* that tell positions apart), then a cursor from the front that peeks and
\* steps (up to MaxExtra steps more than there are elements) and writes
\* through one of the views it gets, then drop(cursor) and pops from the front
CursorOps == {"peek_mut", "next"}
Writes(h) == {i \in 1..Len(h) : h[i].op \in CursorOps /\ h[i].arg # NoWrite}

CursorStep(w) ==
    /\ Count(hist, CursorOps) < Count(hist, {"push_back"}) + MaxExtra
    /\ w # NoWrite => Writes(hist) = {}

NextCursor ==
    \/ Count(hist, {"cursor_front"}) = 0 /\ push_back(Len(hist) + 1)
          /\ Record /\ UNCHANGED ListVars
    \/ Count(hist, {"cursor_front"}) = 0 /\ cursor_front
          /\ Record /\ UNCHANGED ListVars
    \/ \E w \in {NoWrite} \cup Values :
          CursorStep(w) /\ Cursor_peek_mut(w) /\ Record /\ UNCHANGED ListVars
    \/ \E w \in {NoWrite} \cup Values :
          CursorStep(w) /\ Cursor_next(w) /\ Record /\ UNCHANGED ListVars
    \/ Cursor_drop /\ Record /\ UNCHANGED ListVars
    \/ /\ Count(hist, {"drop"}) = 1
       /\ Count(hist, Pops) < Count(hist, {"push_back"}) + MaxExtra
       /\ pop_front /\ Record /\ UNCHANGED ListVars

SpecCursor == Init /\ [][NextCursor]_vars

\* the position (1 = front) of the cursor when call j of h returns: one more
\* than the number of next calls made up to and including call j
Pos(h, j) == 1 + Cardinality({i \in 1..j : h[i].op = "next"})

\* the value element p holds just before call j of h: the value last written
\* through a view of position p, or else the value the p-th push_back pushed
ValBefore(h, j, p) ==
    LET W == {i \in Writes(h) : i < j /\ Pos(h, i) = p}
    IN IF W = {} THEN h[p].arg
       ELSE h[CHOOSE i \in W : \A k \in W : k <= i].arg

\* C9: on a list of n elements, peek_mut right after cursor_front yields the
\* first element, the k-th next yields element k+1 while k < n and None from
\* the n-th call on, and the cursor is off-list from then on.
C9_NextWalk ==
    LET n == Count(hist, {"push_back"})
    IN /\ \A j \in 1..Len(hist) :
            hist[j].op \in CursorOps =>
                hist[j].ret = IF Pos(hist, j) <= n
                              THEN Some(ValBefore(hist, j, Pos(hist, j)))
                              ELSE None
       /\ (cursor /\ Pos(hist, Len(hist)) > n) => current = NULL

\* a cursor over three elements that has made five next calls
C9_Witness ==
    /\ Count(hist, {"push_back"}) = 3
    /\ cursor /\ Count(hist, {"next"}) = 5
    /\ hist[1].arg # hist[2].arg

\* C10: a value written through the view peek_mut or next returned replaces the
\* element at the cursor's position in the chain and no other; after the
\* cursor is dropped, the i-th pop_front returns the i-th pushed element, or
\* the value written at position i if one was, and None once all are out.
C10_WriteVisible ==
    LET n == Count(hist, {"push_back"})
        po == PopPart(hist)
    IN /\ Len(po) = 0 =>
            Elems = [i \in 1..n |-> ValBefore(hist, Len(hist) + 1, i)]
       /\ \A i \in 1..Len(po) :
            po[i].ret = IF i <= n THEN Some(ValBefore(hist, Len(hist) + 1, i))
                        ELSE None

\* three elements, a new value written at the second position through the
\* view next returned, all three popped after the drop
C10_Witness ==
    /\ Count(hist, {"push_back"}) = 3
    /\ Count(hist, {"pop_front"}) = 3
    /\ \E i \in Writes(hist) :
          /\ hist[i].op = "next" /\ Pos(hist, i) = 2
          /\ hist[i].arg # hist[2].arg

(* --------------------------- properties: Cursor ------------------------ *)
\* C11: a cursor taken from the front of an empty list is off-list, and
\* peek_mut and next on it return None, without panicking, however often they
\* are called, while head and tail stay absent and no node exists.
C11_EmptyCursor ==
    /\ (cursor /\ head = NULL) =>
          /\ current = NULL
          /\ tail = NULL
          /\ heap = [n \in NodeIds |-> FreeNode]
    /\ (op \in CursorOps /\ head = NULL) => (ret = None /\ ~panicked)

\* next has returned None to a cursor over an empty list
C11_Witness ==
    /\ cursor /\ head = NULL /\ op = "next" /\ ret = None

\* the position in the forward chain of node n (0 if n is not in it)
IndexOf(n) ==
    IF \E i \in 1..Len(Chain) : Chain[i] = n
    THEN CHOOSE i \in 1..Len(Chain) : Chain[i] = n
    ELSE 0

\* sequence s without its i-th element / with v put in after its i-th element
Without(s, i) == SubSeq(s, 1, i - 1) \o SubSeq(s, i + 1, Len(s))
WithAfter(s, i, v) == SubSeq(s, 1, i) \o <<v>> \o SubSeq(s, i + 1, Len(s))

\* C12: take on a positioned cursor returns the current element, removes it
\* from the chain and moves the cursor to the former successor, else to the
\* former predecessor, else off-list; take on an off-list cursor returns None
\* and changes nothing.
C12_Step ==
    op' = "take" =>
        /\ ~panicked'
        /\ IF current = NULL
           THEN /\ ret' = None
                /\ head' = head /\ tail' = tail /\ Elems' = Elems
                /\ current' = NULL
           ELSE LET i == IndexOf(current)
                IN /\ ret' = Some(heap[current].data)
                   /\ Elems' = Without(Elems, i)
                   /\ current' = IF i < Len(Chain) THEN Chain[i + 1]
                                 ELSE IF i > 1 THEN Chain[i - 1]
                                 ELSE NULL
C12_TakeRemoves == [][C12_Step]_vars

\* C13: no Cursor method panics, and on an off-list cursor over an empty list
\* peek_mut, next, prev and take return None and leave the list empty.
C13_CursorNeverPanics ==
    /\ ~panicked
    /\ (op \in {"peek_mut", "next", "prev", "take"} /\ head = NULL) =>
          (ret = None /\ current = NULL /\ tail = NULL)

\* C14: insert_after and insert_before on a cursor over an empty list make the
\* new node the only element, head and tail, with the cursor positioned at it;
\* insert_after on a positioned cursor puts the new element right after the
\* current one and leaves the cursor where it is.
C14_Step ==
    op' \in {"insert_after", "insert_before"} =>
        /\ ~panicked'
        /\ head = NULL =>
              /\ Elems' = <<arg'>>
              /\ head' # NULL /\ tail' = head' /\ current' = head'
        /\ (op' = "insert_after" /\ current # NULL) =>
              /\ Elems' = WithAfter(Elems, IndexOf(current), arg')
              /\ current' = current
C14_InsertSplices == [][C14_Step]_vars

\* C15: push_front, push_back, pop_front, pop_back and cursor_front run only
\* while no Cursor is alive; cursor_front makes one, and only dropping it ends
\* it, after which the list methods can run again.
C15_Step ==
    /\ op' \in Pushes \cup Pops \cup {"cursor_front"} => ~cursor
    /\ op' = "cursor_front" => cursor'
    /\ (cursor /\ ~cursor') => op' = "drop"
    /\ op' = "drop" => (~cursor' /\ (~panicked' => ListCallable'))
C16_Step ==
    (op' \in Pops /\ head # NULL) =>
        LET victim == IF op' = "pop_front" THEN head ELSE tail
        IN /\ victim \in Live
           /\ heap[victim].strong = 1
           /\ ret' = Some(heap[victim].data)
           /\ heap'[victim] = FreeNode
           /\ Live' = Live \ {victim}
C16_PopReclaims == [][C16_Step]_vars

\* pop_back has reclaimed the tail of a list that still has elements
C16_Witness ==
    /\ op = "pop_back" /\ ret # None /\ head # NULL /\ Cardinality(Live) >= 2

C18_WeakRefsLive ==
    LET InChain == {Chain[i] : i \in 1..Len(Chain)}
    IN /\ tail # NULL => (tail \in Live /\ tail \in InChain)
       /\ \A n \in NodeIds :
             heap[n].prev # NULL =>
                 (heap[n].prev \in Live /\ heap[n].prev \in InChain)
       /\ head # NULL => Upgrade(heap, tail) # NULL
       /\ (op = "pop_back" /\ tail # NULL) => heap[tail].next = NULL

\* pop_front has removed a node that its successor's prev referred to, and the
\* list still has a head and a different tail
C18_Witness ==
    /\ op = "pop_front" /\ ret # None /\ head # NULL /\ tail # head

\* C19: cursor_front, peek_mut and next leave head, tail, every next and prev
\* link and the order of the nodes as they were, and the elements too unless
\* the caller writes through the returned view (then only the element at the
\* cursor changes); of the three only next moves an existing cursor.
C19_Step ==
    op' \in {"cursor_front", "peek_mut", "next"} =>
        /\ head' = head /\ tail' = tail
        /\ \A n \in NodeIds : /\ heap'[n].next = heap[n].next
                              /\ heap'[n].prev = heap[n].prev
        /\ Chain' = Chain
        /\ arg' = NoWrite => Elems' = Elems
        /\ \A n \in NodeIds : n # current' => heap'[n].data = heap[n].data
        /\ op' = "peek_mut" => current' = current
C19_NoStructuralChange == [][C19_Step]_vars

\* next has moved the cursor to the middle of a chain of three nodes
C19_Witness ==
    /\ cursor /\ op = "next" /\ Len(Chain) = 3 /\ current = Chain[2]

(* ------------------- list.rs: the singly linked List ------------------- *)
\* Option<Box<Node<T>>> is modelled as it is declared: None, or Some of a node
\* record [data, next] whose next is again such an option.

\* the number of nodes reachable from an Option<Box<Node<T>>>
RECURSIVE Nodes(_)
Nodes(o) == IF o = None THEN 0 ELSE 1 + Nodes(o[1].next)

\* pop_front that decrements len before looking at head
List_pop_front_DecFirst ==
    /\ ~panicked
    /\ List_len' = List_len - 1
    /\ IF List_head = None
       THEN /\ ret' = None
            /\ List_head' = None
       ELSE /\ List_head' = List_head[1].next
            /\ ret' = Some(List_head[1].data)
    /\ op' = "List::pop_front" /\ arg' = NoWrite

List_push_front(v) ==
    /\ ~panicked
    /\ Nodes(List_head) < MaxNodes
    \* self.len += 1
    /\ List_len' = List_len + 1
    \* let old_head = std::mem::take(&mut self.head)
    /\ List_head' = Some([data |-> v, next |-> List_head])
    /\ op' = "List::push_front" /\ arg' = v /\ ret' = None

List_pop_front ==
    /\ ~panicked
    /\ IF List_head = None
       THEN \* mem::take of None leaves None; return None
            /\ ret' = None
            /\ UNCHANGED <<List_head, List_len>>
       ELSE \* self.len -= 1 (usize: an underflow would show as a negative value)
            /\ List_len' = List_len - 1
            /\ List_head' = List_head[1].next
            /\ ret' = Some(List_head[1].data)
    /\ op' = "List::pop_front" /\ arg' = NoWrite

List_clear ==
    /\ ~panicked
    /\ List_head' = None
    /\ List_len' = 0
    /\ op' = "List::clear" /\ arg' = NoWrite /\ ret' = None

\* len(): returns self.len
List_len_call ==
    /\ ~panicked
    /\ ret' = Some(List_len)
    /\ op' = "List::len" /\ arg' = NoWrite
    /\ UNCHANGED <<List_head, List_len>>

\* tests::test_len, test_clear: any calls of push_front, pop_front, clear and
\* len, MaxNodes + MaxExtra of them, recorded
ListStep == Len(hist) < MaxNodes + MaxExtra

NextList ==
    \/ \E v \in Values :
          ListStep /\ List_push_front(v) /\ Record /\ UNCHANGED DListVars
    \/ ListStep /\ List_pop_front /\ Record /\ UNCHANGED DListVars
    \/ ListStep /\ List_clear /\ Record /\ UNCHANGED DListVars
    \/ ListStep /\ List_len_call /\ Record /\ UNCHANGED DListVars

SpecList == Init /\ [][NextList]_vars

\* C20: after every call len is the number of nodes reachable from head (and
\* len() returns it); pop_front on an empty List returns None and leaves head
\* absent and len 0; clear leaves head absent and len 0.
C20_Step ==
    /\ List_len' = Nodes(List_head') /\ List_len' >= 0
    /\ op' = "List::len" => ret' = Some(Nodes(List_head))
    /\ (op' = "List::pop_front" /\ List_head = None) =>
          (ret' = None /\ List_head' = None /\ List_len' = 0)
    /\ (op' = "List::pop_front" /\ List_head # None) =>
          (ret' = Some(List_head[1].data) /\ List_len' = List_len - 1)
    /\ op' = "List::push_front" => List_len' = List_len + 1
    /\ op' = "List::clear" => (List_head' = None /\ List_len' = 0)
C20_LenCountsNodes == [][C20_Step]_vars

\* pop_front has returned None on a List emptied after at least two pushes
C20_Witness ==
    /\ op = "List::pop_front" /\ ret = None /\ List_len = 0
    /\ Count(hist, {"List::push_front"}) >= 2

====
